---- MODULE Spec2Model ----
(***************************************************************************)
(* Multi-branch networks of OKDDip: MutualNet (DML.py), DenseNet           *)
(* (densenet_one.py) and MobileNetV2 (mobilenetv2_one.py).                 *)
(*                                                                         *)
(* A model object is constructed once and then called any number of times. *)
(* The constructors are modelled by the attributes they attach (setattr /  *)
(* self.x = ...) and the exception they raise; forward is modelled line    *)
(* group by line group with a program counter, every attribute lookup      *)
(* raising AttributeError when the constructor never attached the name.    *)
(*                                                                         *)
(* Tensors.  A feature map is abstracted to one integer per batch element, *)
(* a logits tensor [B x num_classes] to a sequence over the batch of       *)
(* sequences over the classes.  A tensor with a trailing branch axis       *)
(* [B x num_classes x n] is the sequence of its n slices t[:, :, i]:       *)
(* unsqueeze(-1) makes a one-element sequence, torch.cat(.., -1) appends.  *)
(* Python index i is TLA+ index i + 1.  Floating point is modelled by      *)
(* exact rationals <<numerator, denominator>> in lowest terms.             *)
(***************************************************************************)
EXTENDS Integers, Sequences, FiniteSets, TLC

\* ---- bounds -------------------------------------------------------------
MaxBranches == 3
BatchSize == 2
NumClasses == 2
MaxInput == 2
MaxParam == 2
MaxGrad == 2

\* base of the exponential inside F.softmax (stands for e; the exponents
\* are the non-negative integers F.relu leaves)
ExpBase == 3

Batch == 1..BatchSize
Classes == 1..NumClasses
BranchCounts == 0..MaxBranches
Inputs == [Batch -> 1..MaxInput]
HeadParams == 1..MaxParam
GateParams == {-1, 1}
Grads == [Batch -> 1..MaxGrad]

VARIABLES pc, family, args, attrs, params, head_module, ctor_error,
          x_in, x, ilr_ctx, pro, i, x_c, x_m, result, error,
          trunk_calls, reads, order, grad_out, grad_in

vars == <<pc, family, args, attrs, params, head_module, ctor_error,
          x_in, x, ilr_ctx, pro, i, x_c, x_m, result, error,
          trunk_calls, reads, order, grad_out, grad_in>>

self == <<family, args, attrs, params, head_module>>
\* what one forward pass did: trunk evaluations, the feature maps its
\* readers were handed, the branches evaluated so far
hist == <<trunk_calls, reads, order>>
\* the backward pass through the tap
grads == <<grad_out, grad_in>>
locals == <<x_in, x, ilr_ctx, pro, i, x_c, x_m, result, error, hist, grads>>

\* ---- Python values ------------------------------------------------------
None == [tag |-> "None", val |-> <<>>]
Unbound == [tag |-> "unbound", val |-> <<>>]
PyInt0 == [tag |-> "int", val |-> <<>>]
Tensor(v) == [tag |-> "tensor", val |-> v]
Pair(a, b) == [tag |-> "pair", pro |-> a, fused |-> b]
Single(a) == [tag |-> "tensor", pro |-> a, fused |-> Unbound]
NoResult == [tag |-> "none", pro |-> <<>>, fused |-> Unbound]

\* ---- exact arithmetic ---------------------------------------------------
Abs(n) == IF n < 0 THEN -n ELSE n

RECURSIVE GCD(_, _)
GCD(a, b) == IF b = 0 THEN a ELSE GCD(b, a % b)

Rat(n, d) == LET g == GCD(Abs(n), d) IN <<n \div g, d \div g>>
RInt(n) == <<n, 1>>
RAdd(p, q) == Rat(p[1] * q[2] + q[1] * p[2], p[2] * q[2])
RMul(p, q) == Rat(p[1] * q[1], p[2] * q[2])

\* scalar * tensor[B x C] of integers, tensor + tensor, row-weight * tensor
Scale(r, t) == [b \in Batch |-> [c \in Classes |-> RMul(r, RInt(t[b][c]))]]
TAdd(s, t) == [b \in Batch |-> [c \in Classes |-> RAdd(s[b][c], t[b][c])]]
RowScale(w, t) == [b \in Batch |-> [c \in Classes |-> RMul(w[b], RInt(t[b][c]))]]

\* acc += t where acc was initialised with the Python int 0
PlusEq(acc, t) == IF acc.tag = "int" THEN Tensor(t) ELSE Tensor(TAdd(acc.val, t))

RECURSIVE Pow(_, _)
Pow(a, n) == IF n = 0 THEN 1 ELSE a * Pow(a, n - 1)
Exp(n) == Pow(ExpBase, n)
Relu(v) == IF v < 0 THEN 0 ELSE v

RECURSIVE SumSeq(_)
SumSeq(s) == IF s = <<>> THEN 0 ELSE Head(s) + SumSeq(Tail(s))

\* ---- attributes ---------------------------------------------------------
\* self.<name> and setattr(self, <prefix> + str(i), ..)
Attr(name) == <<name>>
IdxAttr(prefix, n) == <<prefix, n>>
IdxAttrs(prefix, K) == {IdxAttr(prefix, n) : n \in 0..(K - 1)}
HasAttr(at, a) == a \in at

Ok(at) == [attrs |-> at, error |-> "none"]
Raise(at, e) == [attrs |-> at, error |-> e]

\* ---- MutualNet.__init__ -------------------------------------------------
Recognized == {"resnet18", "mobilenet_v2", "vgg16", "densenetd40k12",
               "densenet121", "shufflenet_v2_x0_5"}
ModelNames == {"resnet32", "densenetd40k12", "mobilenet_v2"}

RECURSIVE MutualNetInitLoop(_, _, _, _)
MutualNetInitLoop(model, K, n, at) ==
    IF n >= K THEN Ok(at)
    ELSE IF model \in Recognized
         THEN MutualNetInitLoop(model, K, n + 1, at \cup {IdxAttr("stu", n)})
         ELSE Raise(at, "NotImplementedError")

MutualNetInit(model, K) == MutualNetInitLoop(model, K, 0, {})

\* ---- DenseNet.__init__ --------------------------------------------------
Compressions == {<<1, 2>>, <<3, 2>>}
CompressionOk(c) == 0 < c[1] /\ c[1] <= c[2]

DenseNetGateBuilt(avg, ind) == avg = FALSE

DenseNetInit(K, bpscale, avg, ind, compression) ==
    IF ~CompressionOk(compression) THEN Raise({}, "AssertionError")
    ELSE LET a1 == {Attr("features")} \cup IdxAttrs("layer3_", K)
             a2 == a1 \cup {Attr("control_v1"), Attr("bn_v1")}
             a3 == IF DenseNetGateBuilt(avg, ind) THEN a2 ELSE a1
             a4 == a3 \cup IdxAttrs("norm_final_", K)
                      \cup IdxAttrs("relu_final_", K)
                      \cup IdxAttrs("classifier3_", K)
                      \cup {Attr("avgpool")}
             a5 == IF bpscale THEN a4 \cup {Attr("layer_ILR")} ELSE a4
         IN Ok(a5)

\* ---- MobileNetV2.__init__ -----------------------------------------------
PyList(v) == [tag |-> "list", val |-> v]
DefaultSetting == <<<<1, 16, 1, 1>>, <<6, 24, 2, 1>>, <<6, 32, 3, 1>>,
                    <<6, 64, 4, 2>>, <<6, 96, 3, 1>>, <<6, 160, 3, 2>>,
                    <<6, 320, 1, 1>>>>
Settings == {None, PyList(<<>>), PyList(<<<<6, 24, 2>>>>)}
SettingOf(s) == IF s = None THEN DefaultSetting ELSE s.val
SettingOk(rows) == ~(Len(rows) = 0 \/ Len(rows[1]) # 4)

MobileNetV2GateBuilt(avg, ind) == avg = FALSE

MobileNetV2Init(K, bpscale, avg, ind, setting) ==
    IF ~SettingOk(SettingOf(setting)) THEN Raise({}, "ValueError")
    ELSE LET a1 == {Attr("features")} \cup IdxAttrs("layer4_", K)
                      \cup IdxAttrs("classifier4_", K)
             a2 == a1 \cup {Attr("control_v1"), Attr("bn_v1")}
         IN IF MobileNetV2GateBuilt(avg, ind) THEN Ok(a2) ELSE Ok(a1)

\* ---- layers -------------------------------------------------------------
\* self.features: the shared trunk
Features(inp) == [b \in Batch |-> 2 * inp[b] + 1]

\* one branch head (layer, pooling, classifier) with its own parameter p
HeadLogits(p, f) == [b \in Batch |-> [c \in Classes |-> p * f[b] + c]]

\* a MutualNet student: a whole network applied to the input
Student(p, inp) == [b \in Batch |-> [c \in Classes |-> p * inp[b] - c]]

\* ILR.forward(ctx, input, num_branches)
ILRForward(input, num_branches) == [out |-> input, ctx |-> <<num_branches>>]

\* ILR.backward(ctx, grad_output): one gradient per forward argument
NoGrad == [grad_input |-> <<>>, grad_num_branches |-> Unbound]

\* variant: the gradient is multiplied by the branch count
ILRBackwardTimes(ctx, grad_output) ==
    [grad_input |-> [b \in Batch |-> Rat(grad_output[b] * ctx[1], 1)],
     grad_num_branches |-> None]

ILRBackward(ctx, grad_output) ==
    [grad_input |-> [b \in Batch |-> Rat(grad_output[b], ctx[1])],
     grad_num_branches |-> None]

\* adaptive_avg_pool2d, control_v1 (integer weight gw[n], bias 0 as
\* initialised), bn_v1 taken with the statistics and affine parameters a
\* new BatchNorm1d has (mean 0, variance 1, weight 1, bias 0), relu, and
\* softmax over the branch axis
GatePre(gw, f, K) == [b \in Batch |-> [n \in 1..K |-> Relu(gw[n] * f[b])]]
Softmax(z) == LET e == [n \in 1..Len(z) |-> Exp(z[n])]
              IN [n \in 1..Len(z) |-> Rat(e[n], SumSeq(e))]
\* variant: softmax over dim 0, the batch axis
GateDim0(gw, f, K) ==
    LET z == GatePre(gw, f, K)
    IN [b \in Batch |-> [n \in 1..K |->
           Rat(Exp(z[b][n]), SumSeq([bb \in Batch |-> Exp(z[bb][n])]))]]

Gate(gw, f, K) == [b \in Batch |-> Softmax(GatePre(gw, f, K)[b])]

\* ---- fusion -------------------------------------------------------------
\* x_c[:, n] as one weight per batch element
Col(xc, n) == [b \in Batch |-> xc[b][n + 1]]

\* x_m = 0; for i in range(1, K): x_m += 1/(K-1) * pro[:, :, i]
RECURSIVE AvgFirstLoop(_, _, _, _)
AvgFirstLoop(p, K, n, acc) ==
    IF n >= K THEN acc
    ELSE AvgFirstLoop(p, K, n + 1, PlusEq(acc, Scale(Rat(1, K - 1), p[n + 1])))

\* variant: the first loop starts at branch 0
AvgFirstFromZero(p, K) == AvgFirstLoop(p, K, 0, PyInt0)

AvgFirst(p, K) == AvgFirstLoop(p, K, 1, PyInt0)

\* temp = 0; for j in range(0, K): if j != i: temp += 1/(K-1) * pro[:, :, j]
RECURSIVE LeaveOneOutLoop(_, _, _, _, _)
LeaveOneOutLoop(p, K, n, j, acc) ==
    IF j >= K THEN acc
    ELSE LeaveOneOutLoop(p, K, n, j + 1,
             IF j # n THEN PlusEq(acc, Scale(Rat(1, K - 1), p[j + 1])) ELSE acc)

\* variant: the test j != i is missing
LeaveOneOutAll(p, K, n) == LeaveOneOutLoop(p, K, K, 0, PyInt0)

LeaveOneOut(p, K, n) == LeaveOneOutLoop(p, K, n, 0, PyInt0)

\* for i in range(1, K): x_m = torch.cat([x_m, temp.unsqueeze(-1)], -1)
RECURSIVE AvgCatLoop(_, _, _, _)
AvgCatLoop(p, K, n, xm) ==
    IF n >= K THEN xm
    ELSE AvgCatLoop(p, K, n + 1, Append(xm, LeaveOneOut(p, K, n).val))

\* the whole avg branch; the Python int 0 has no unsqueeze
DenseNetAvgFuse(p, K) ==
    LET first == AvgFirst(p, K)
    IN IF first.tag = "int" THEN [error |-> "AttributeError", x_m |-> PyInt0]
       ELSE [error |-> "none", x_m |-> Tensor(AvgCatLoop(p, K, 1, <<first.val>>))]

\* x_m = x_c[:, 0] * pro[:, :, 0]; for i in range(1, K): x_m += x_c[:, i] * pro[:, :, i]
RECURSIVE DenseNetFuseLoop(_, _, _, _, _)
DenseNetFuseLoop(xc, p, K, n, xm) ==
    IF n >= K THEN xm
    ELSE DenseNetFuseLoop(xc, p, K, n + 1, TAdd(xm, RowScale(Col(xc, n), p[n + 1])))

\* variant: the loop starts one branch late
DenseNetGatedFuseSkip(xc, p, K) ==
    DenseNetFuseLoop(xc, p, K, 2, RowScale(Col(xc, 0), p[1]))

DenseNetGatedFuse(xc, p, K) ==
    DenseNetFuseLoop(xc, p, K, 1, RowScale(Col(xc, 0), p[1]))

RECURSIVE MobileNetV2FuseLoop(_, _, _, _, _)
MobileNetV2FuseLoop(xc, p, K, n, xm) ==
    IF n >= K THEN xm
    ELSE MobileNetV2FuseLoop(xc, p, K, n + 1, TAdd(xm, RowScale(Col(xc, n), p[n + 1])))

MobileNetV2GatedFuse(xc, p, K) ==
    MobileNetV2FuseLoop(xc, p, K, 1, RowScale(Col(xc, 0), p[1]))

\* if self.ind / if self.avg / else
\* variant: the test of self.ind is missing
DenseNetDispatchNoInd(ind, avg) == IF avg THEN "d_avg" ELSE "d_gate"

DenseNetDispatch(ind, avg) == IF ind THEN "d_ind" ELSE IF avg THEN "d_avg" ELSE "d_gate"
MobileNetV2Dispatch(ind, avg) == IF ind THEN "m_ind" ELSE IF avg THEN "m_avg" ELSE "m_gate"

\* ---- state machine ------------------------------------------------------
NoArgs == [num_branches |-> 0]

Init ==
    /\ pc = "new"
    /\ family = "none"
    /\ args = NoArgs
    /\ attrs = {}
    /\ params = [heads |-> <<>>, gate |-> <<>>]
    /\ head_module = <<>>
    /\ ctor_error = "none"
    /\ x_in = <<>>
    /\ x = <<>>
    /\ ilr_ctx = <<>>
    /\ pro = <<>>
    /\ i = 0
    /\ x_c = Unbound
    /\ x_m = Unbound
    /\ result = NoResult
    /\ error = "none"
    /\ trunk_calls = 0
    /\ reads = <<>>
    /\ order = <<>>
    /\ grad_out = <<>>
    /\ grad_in = NoGrad

K == args.num_branches
ParamSeqs(n, S) == [1..n -> S]

\* each loop iteration of a constructor makes new module instances; the
\* instance made for branch n is numbered n + 1 and owns params.heads[n + 1]
StudentModule(n) == n + 1
\* variant: one instance is made before the loop and attached K times
DenseNetHeadModuleShared(n) == 1

DenseNetHeadModule(n) == n + 1
MobileNetV2HeadModule(n) == n + 1

\* the parameter of the module that branch n evaluates
HeadParam(n) == params.heads[head_module[n + 1]]

\* what the shared feature map holds after a head was evaluated on it:
\* no layer of a head writes its input
\* variant: a head starts with an in-place operation on its input
DenseNetSharedAfterHeadInplace(f) == [b \in Batch |-> f[b] - 1]

DenseNetSharedAfterHead(f) == f
MobileNetV2SharedAfterHead(f) == f

\* the constructor returns the object or raises
Built(fam, a, r, hw, gw, hm) ==
    /\ family' = fam
    /\ args' = a
    /\ attrs' = r.attrs
    /\ ctor_error' = r.error
    /\ pc' = IF r.error = "none" THEN "built" ELSE "ctor_raised"
    /\ params' = IF r.error = "none" THEN [heads |-> hw, gate |-> gw]
                 ELSE [heads |-> <<>>, gate |-> <<>>]
    /\ head_module' = IF r.error = "none" THEN hm ELSE <<>>
    /\ UNCHANGED locals

MutualNetNew ==
    /\ pc = "new"
    /\ \E model \in ModelNames, nb \in BranchCounts :
         LET r == MutualNetInit(model, nb)
             n == Cardinality(r.attrs)
         IN \E hw \in ParamSeqs(n, HeadParams) :
              Built("MutualNet", [model |-> model, num_branches |-> nb], r, hw, <<>>,
                    [k \in 1..n |-> StudentModule(k - 1)])

DenseNetNew ==
    /\ pc = "new"
    /\ \E nb \in BranchCounts, bp \in BOOLEAN, av \in BOOLEAN, ind \in BOOLEAN,
          comp \in Compressions :
         LET r == DenseNetInit(nb, bp, av, ind, comp)
             gated == HasAttr(r.attrs, Attr("control_v1"))
         IN \E hw \in ParamSeqs(nb, HeadParams),
               gw \in ParamSeqs(IF gated THEN nb ELSE 0, GateParams) :
              Built("DenseNet",
                    [num_branches |-> nb, bpscale |-> bp, avg |-> av, ind |-> ind,
                     compression |-> comp], r, hw, gw,
                    [k \in 1..nb |-> DenseNetHeadModule(k - 1)])

MobileNetV2New ==
    /\ pc = "new"
    /\ \E nb \in BranchCounts, bp \in BOOLEAN, av \in BOOLEAN, ind \in BOOLEAN,
          st \in Settings :
         LET r == MobileNetV2Init(nb, bp, av, ind, st)
             gated == HasAttr(r.attrs, Attr("control_v1"))
         IN \E hw \in ParamSeqs(nb, HeadParams),
               gw \in ParamSeqs(IF gated THEN nb ELSE 0, GateParams) :
              Built("MobileNetV2",
                    [num_branches |-> nb, bpscale |-> bp, avg |-> av, ind |-> ind,
                     inverted_residual_setting |-> st], r, hw, gw,
                    [k \in 1..nb |-> MobileNetV2HeadModule(k - 1)])

\* model(x): a fresh frame of locals
Call(fam, entry) ==
    /\ family = fam
    /\ pc \in {"built", "returned", "raised"}
    /\ \E inp \in Inputs : x_in' = inp
    /\ x' = <<>>
    /\ ilr_ctx' = <<>>
    /\ pro' = <<>>
    /\ i' = 0
    /\ x_c' = Unbound
    /\ x_m' = Unbound
    /\ result' = NoResult
    /\ error' = "none"
    /\ trunk_calls' = 0
    /\ reads' = <<>>
    /\ order' = <<>>
    /\ grad_out' = <<>>
    /\ grad_in' = NoGrad
    /\ pc' = entry
    /\ UNCHANGED <<self, ctor_error>>

Throw(e) ==
    /\ pc' = "raised"
    /\ error' = e

Return(r) ==
    /\ pc' = "returned"
    /\ result' = r

\* ---- MutualNet.forward --------------------------------------------------
MutualNetCall == Call("MutualNet", "u_head0")

MutualNetHead0 ==
    /\ pc = "u_head0"
    /\ IF HasAttr(attrs, IdxAttr("stu", 0))
       THEN /\ pro' = <<Student(HeadParam(0), x_in)>>
            /\ i' = 1
            /\ pc' = "u_loop"
            /\ UNCHANGED error
       ELSE /\ Throw("AttributeError")
            /\ UNCHANGED <<pro, i>>
    /\ UNCHANGED <<self, ctor_error, x_in, x, ilr_ctx, x_c, x_m, result, hist, grads>>

MutualNetLoop ==
    /\ pc = "u_loop"
    /\ IF i < K
       THEN /\ pro' = Append(pro, Student(HeadParam(i), x_in))
            /\ i' = i + 1
            /\ pc' = "u_loop"
       ELSE /\ pc' = "u_return"
            /\ UNCHANGED <<pro, i>>
    /\ UNCHANGED <<self, ctor_error, x_in, x, ilr_ctx, x_c, x_m, result, error,
                   hist, grads>>

MutualNetReturn ==
    /\ pc = "u_return"
    /\ Return(Single(pro))
    /\ UNCHANGED <<self, ctor_error, x_in, x, ilr_ctx, pro, i, x_c, x_m, error,
                   hist, grads>>

\* ---- DenseNet.forward ---------------------------------------------------
DenseNetCall == Call("DenseNet", "d_features")

DenseNetFeatures ==
    /\ pc = "d_features"
    /\ x' = Features(x_in)
    /\ trunk_calls' = trunk_calls + 1
    /\ pc' = "d_tap"
    /\ UNCHANGED <<self, ctor_error, x_in, ilr_ctx, pro, i, x_c, x_m, result, error,
                   reads, order, grads>>

DenseNetTap ==
    /\ pc = "d_tap"
    /\ IF args.bpscale
       THEN LET r == ILRForward(x, K)
            IN /\ x' = r.out
               /\ ilr_ctx' = r.ctx
       ELSE UNCHANGED <<x, ilr_ctx>>
    /\ pc' = "d_head0"
    /\ UNCHANGED <<self, ctor_error, x_in, pro, i, x_c, x_m, result, error,
                   hist, grads>>

DenseNetHeadAttrs(n) ==
    {IdxAttr("layer3_", n), IdxAttr("norm_final_", n), IdxAttr("relu_final_", n),
     Attr("avgpool"), IdxAttr("classifier3_", n)}

\* branch n is evaluated on the shared feature map
DenseNetEvalHead(n) ==
    /\ reads' = Append(reads, x)
    /\ order' = Append(order, n)
    /\ x' = DenseNetSharedAfterHead(x)
    /\ UNCHANGED trunk_calls

DenseNetHead0 ==
    /\ pc = "d_head0"
    /\ IF DenseNetHeadAttrs(0) \subseteq attrs
       THEN /\ pro' = <<HeadLogits(HeadParam(0), x)>>
            /\ DenseNetEvalHead(0)
            /\ i' = 1
            /\ pc' = "d_loop"
            /\ UNCHANGED error
       ELSE /\ Throw("AttributeError")
            /\ UNCHANGED <<pro, i, x, hist>>
    /\ UNCHANGED <<self, ctor_error, x_in, ilr_ctx, x_c, x_m, result, grads>>

DenseNetHeadLoop ==
    /\ pc = "d_loop"
    /\ IF i < K
       THEN IF DenseNetHeadAttrs(i) \subseteq attrs
            THEN /\ pro' = Append(pro, HeadLogits(HeadParam(i), x))
                 /\ DenseNetEvalHead(i)
                 /\ i' = i + 1
                 /\ pc' = "d_loop"
                 /\ UNCHANGED error
            ELSE /\ Throw("AttributeError")
                 /\ UNCHANGED <<pro, i, x, hist>>
       ELSE /\ pc' = DenseNetDispatch(args.ind, args.avg)
            /\ UNCHANGED <<pro, i, error, x, hist>>
    /\ UNCHANGED <<self, ctor_error, x_in, ilr_ctx, x_c, x_m, result, grads>>

DenseNetReturnInd ==
    /\ pc = "d_ind"
    /\ Return(Pair(pro, None))
    /\ UNCHANGED <<self, ctor_error, x_in, x, ilr_ctx, pro, i, x_c, x_m, error,
                   hist, grads>>

DenseNetAvg ==
    /\ pc = "d_avg"
    /\ LET r == DenseNetAvgFuse(pro, K)
       IN /\ x_m' = r.x_m
          /\ IF r.error = "none"
             THEN /\ pc' = "d_return"
                  /\ UNCHANGED error
             ELSE Throw(r.error)
    /\ UNCHANGED <<self, ctor_error, x_in, x, ilr_ctx, pro, i, x_c, result,
                   hist, grads>>

DenseNetGate ==
    /\ pc = "d_gate"
    /\ IF {Attr("control_v1"), Attr("bn_v1")} \subseteq attrs
       THEN /\ x_c' = Tensor(Gate(params.gate, x, K))
            /\ reads' = Append(reads, x)
            /\ pc' = "d_fuse"
            /\ UNCHANGED error
       ELSE /\ Throw("AttributeError")
            /\ UNCHANGED <<x_c, reads>>
    /\ UNCHANGED <<self, ctor_error, x_in, x, ilr_ctx, pro, i, x_m, result,
                   trunk_calls, order, grads>>

DenseNetFuse ==
    /\ pc = "d_fuse"
    /\ x_m' = Tensor(DenseNetGatedFuse(x_c.val, pro, K))
    /\ pc' = "d_return"
    /\ UNCHANGED <<self, ctor_error, x_in, x, ilr_ctx, pro, i, x_c, result, error,
                   hist, grads>>

DenseNetReturn ==
    /\ pc = "d_return"
    /\ Return(Pair(pro, x_m))
    /\ UNCHANGED <<self, ctor_error, x_in, x, ilr_ctx, pro, i, x_c, x_m, error,
                   hist, grads>>

\* autograd runs ILR.backward with the ctx of the forward call, handing it
\* the gradient that arrives at the tap's output
DenseNetBackward ==
    /\ pc = "returned"
    /\ family = "DenseNet"
    /\ ilr_ctx # <<>>
    /\ grad_out = <<>>
    /\ \E g \in Grads :
         /\ grad_out' = g
         /\ grad_in' = ILRBackward(ilr_ctx, g)
    /\ UNCHANGED <<pc, self, ctor_error, x_in, x, ilr_ctx, pro, i, x_c, x_m, result,
                   error, hist>>

\* ---- MobileNetV2._forward_impl ------------------------------------------
MobileNetV2Call == Call("MobileNetV2", "m_features")

MobileNetV2Features ==
    /\ pc = "m_features"
    /\ x' = Features(x_in)
    /\ trunk_calls' = trunk_calls + 1
    /\ pc' = "m_head0"
    /\ UNCHANGED <<self, ctor_error, x_in, ilr_ctx, pro, i, x_c, x_m, result, error,
                   reads, order, grads>>

MobileNetV2EvalHead(n) ==
    /\ reads' = Append(reads, x)
    /\ order' = Append(order, n)
    /\ x' = MobileNetV2SharedAfterHead(x)
    /\ UNCHANGED trunk_calls

MobileNetV2Head0 ==
    /\ pc = "m_head0"
    /\ IF {IdxAttr("layer4_", 0), IdxAttr("classifier4_", 0)} \subseteq attrs
       THEN /\ pro' = <<HeadLogits(HeadParam(0), x)>>
            /\ MobileNetV2EvalHead(0)
            /\ i' = 1
            /\ pc' = "m_loop"
            /\ UNCHANGED error
       ELSE /\ Throw("AttributeError")
            /\ UNCHANGED <<pro, i, x, hist>>
    /\ UNCHANGED <<self, ctor_error, x_in, ilr_ctx, x_c, x_m, result, grads>>

MobileNetV2HeadLoop ==
    /\ pc = "m_loop"
    /\ IF i < K
       THEN IF {IdxAttr("layer4_", i), Attr("avgpool"), IdxAttr("classifier4_", i)}
                   \subseteq attrs
            THEN /\ pro' = Append(pro, HeadLogits(HeadParam(i), x))
                 /\ MobileNetV2EvalHead(i)
                 /\ i' = i + 1
                 /\ pc' = "m_loop"
                 /\ UNCHANGED error
            ELSE /\ Throw("AttributeError")
                 /\ UNCHANGED <<pro, i, x, hist>>
       ELSE /\ pc' = MobileNetV2Dispatch(args.ind, args.avg)
            /\ UNCHANGED <<pro, i, error, x, hist>>
    /\ UNCHANGED <<self, ctor_error, x_in, ilr_ctx, x_c, x_m, result, grads>>

MobileNetV2ReturnInd ==
    /\ pc = "m_ind"
    /\ Return(Pair(pro, None))
    /\ UNCHANGED <<self, ctor_error, x_in, x, ilr_ctx, pro, i, x_c, x_m, error,
                   hist, grads>>

\* if self.avg: pass
MobileNetV2Avg ==
    /\ pc = "m_avg"
    /\ pc' = "m_return"
    /\ UNCHANGED <<self, ctor_error, locals>>

MobileNetV2Gate ==
    /\ pc = "m_gate"
    /\ IF {Attr("control_v1"), Attr("bn_v1")} \subseteq attrs
       THEN /\ x_c' = Tensor(Gate(params.gate, x, K))
            /\ reads' = Append(reads, x)
            /\ pc' = "m_fuse"
            /\ UNCHANGED error
       ELSE /\ Throw("AttributeError")
            /\ UNCHANGED <<x_c, reads>>
    /\ UNCHANGED <<self, ctor_error, x_in, x, ilr_ctx, pro, i, x_m, result,
                   trunk_calls, order, grads>>

MobileNetV2Fuse ==
    /\ pc = "m_fuse"
    /\ x_m' = Tensor(MobileNetV2GatedFuse(x_c.val, pro, K))
    /\ pc' = "m_return"
    /\ UNCHANGED <<self, ctor_error, x_in, x, ilr_ctx, pro, i, x_c, result, error,
                   hist, grads>>

\* return pro, x_m: x_m is a local that the avg branch never binds
MobileNetV2Return ==
    /\ pc = "m_return"
    /\ IF x_m = Unbound
       THEN /\ Throw("UnboundLocalError")
            /\ UNCHANGED result
       ELSE /\ Return(Pair(pro, x_m))
            /\ UNCHANGED error
    /\ UNCHANGED <<self, ctor_error, x_in, x, ilr_ctx, pro, i, x_c, x_m,
                   hist, grads>>

Next ==
    \/ MutualNetNew
    \/ DenseNetNew
    \/ MobileNetV2New
    \/ MutualNetCall
    \/ MutualNetHead0
    \/ MutualNetLoop
    \/ MutualNetReturn
    \/ DenseNetCall
    \/ DenseNetFeatures
    \/ DenseNetTap
    \/ DenseNetHead0
    \/ DenseNetHeadLoop
    \/ DenseNetReturnInd
    \/ DenseNetAvg
    \/ DenseNetGate
    \/ DenseNetFuse
    \/ DenseNetReturn
    \/ DenseNetBackward
    \/ MobileNetV2Call
    \/ MobileNetV2Features
    \/ MobileNetV2Head0
    \/ MobileNetV2HeadLoop
    \/ MobileNetV2ReturnInd
    \/ MobileNetV2Avg
    \/ MobileNetV2Gate
    \/ MobileNetV2Fuse
    \/ MobileNetV2Return

Spec == Init /\ [][Next]_vars

\* ---- the heads taken in any order ---------------------------------------
\* The same heads, evaluated one at a time in an arbitrary order on the
\* shared feature map; the logits of branch n are then stacked at index n.
\* Everything before and after the heads is the code's.
Unevaluated == (0..(IF K <= 0 THEN 0 ELSE K - 1)) \ {order[k] : k \in 1..Len(order)}
Pos(n) == CHOOSE k \in 1..Len(order) : order[k] = n

\* branch 0 pools with F.adaptive_avg_pool2d, the others with self.avgpool
MobileNetV2HeadAttrs(n) ==
    IF n = 0 THEN {IdxAttr("layer4_", 0), IdxAttr("classifier4_", 0)}
    ELSE {IdxAttr("layer4_", n), Attr("avgpool"), IdxAttr("classifier4_", n)}

DenseNetHeadAny ==
    /\ pc = "d_head0"
    /\ \E n \in Unevaluated :
         IF DenseNetHeadAttrs(n) \subseteq attrs
         THEN /\ pro' = Append(pro, HeadLogits(HeadParam(n), x))
              /\ DenseNetEvalHead(n)
              /\ pc' = IF Len(order) + 1 >= K THEN "d_stack" ELSE "d_head0"
              /\ UNCHANGED error
         ELSE /\ Throw("AttributeError")
              /\ UNCHANGED <<pro, x, hist>>
    /\ UNCHANGED <<self, ctor_error, x_in, ilr_ctx, i, x_c, x_m, result, grads>>

DenseNetStack ==
    /\ pc = "d_stack"
    /\ pro' = [k \in 1..K |-> pro[Pos(k - 1)]]
    /\ pc' = DenseNetDispatch(args.ind, args.avg)
    /\ UNCHANGED <<self, ctor_error, x_in, x, ilr_ctx, i, x_c, x_m, result, error,
                   hist, grads>>

MobileNetV2HeadAny ==
    /\ pc = "m_head0"
    /\ \E n \in Unevaluated :
         IF MobileNetV2HeadAttrs(n) \subseteq attrs
         THEN /\ pro' = Append(pro, HeadLogits(HeadParam(n), x))
              /\ MobileNetV2EvalHead(n)
              /\ pc' = IF Len(order) + 1 >= K THEN "m_stack" ELSE "m_head0"
              /\ UNCHANGED error
         ELSE /\ Throw("AttributeError")
              /\ UNCHANGED <<pro, x, hist>>
    /\ UNCHANGED <<self, ctor_error, x_in, ilr_ctx, i, x_c, x_m, result, grads>>

MobileNetV2Stack ==
    /\ pc = "m_stack"
    /\ pro' = [k \in 1..K |-> pro[Pos(k - 1)]]
    /\ pc' = MobileNetV2Dispatch(args.ind, args.avg)
    /\ UNCHANGED <<self, ctor_error, x_in, x, ilr_ctx, i, x_c, x_m, result, error,
                   hist, grads>>

NextAnyOrder ==
    \/ DenseNetNew
    \/ MobileNetV2New
    \/ DenseNetCall
    \/ DenseNetFeatures
    \/ DenseNetTap
    \/ DenseNetHeadAny
    \/ DenseNetStack
    \/ DenseNetReturnInd
    \/ DenseNetAvg
    \/ DenseNetGate
    \/ DenseNetFuse
    \/ DenseNetReturn
    \/ DenseNetBackward
    \/ MobileNetV2Call
    \/ MobileNetV2Features
    \/ MobileNetV2HeadAny
    \/ MobileNetV2Stack
    \/ MobileNetV2ReturnInd
    \/ MobileNetV2Avg
    \/ MobileNetV2Gate
    \/ MobileNetV2Fuse
    \/ MobileNetV2Return

SpecAnyOrder == Init /\ [][NextAnyOrder]_vars

\* ---- properties ---------------------------------------------------------
Constructed == pc \notin {"new", "ctor_raised"}
Done == pc \in {"returned", "raised"}
Fusing == family \in {"DenseNet", "MobileNetV2"}
Independent == Constructed /\ Fusing /\ args.ind
Gated == Constructed /\ Fusing /\ ~args.ind /\ ~args.avg
LeaveOneOutAvg == Constructed /\ Fusing /\ ~args.ind /\ args.avg
GateAttrs == {Attr("control_v1"), Attr("bn_v1")}

\* K >= 1, and K >= 2 where the leave-one-out average divides by K - 1
ValidConfig == /\ Constructed
               /\ K >= 1
               /\ LeaveOneOutAvg => K >= 2

\* head n applied to what the heads are fed
BranchLogits(n) == IF family = "MutualNet" THEN Student(HeadParam(n), x_in)
                   ELSE HeadLogits(HeadParam(n), Features(x_in))

\* sum over the branches n, n-1, .., 1 of weight * logit
RECURSIVE WeightedSum(_, _, _, _, _)
WeightedSum(w, p, b, c, n) ==
    IF n = 0 THEN RInt(0)
    ELSE RAdd(RMul(w[b][n], RInt(p[n][b][c])), WeightedSum(w, p, b, c, n - 1))

\* sum of the logits of every branch but branch n
SumOthers(p, b, c, n) == SumSeq([j \in 1..Len(p) |-> IF j = n + 1 THEN 0 ELSE p[j][b][c]])

\* q = total / (K - 1)
IsMeanOf(q, total) == q[1] * (K - 1) = q[2] * total

\* C1: for every family, K >= 1 and valid configuration, forward completes
\* and returns per-branch logits whose last axis has size exactly K, the
\* logits of branch i at index i.
C1_Claim ==
    (Done /\ ValidConfig) =>
        /\ pc = "returned"
        /\ Len(result.pro) = K
        /\ \A n \in 0..(K - 1) : result.pro[n + 1] = BranchLogits(n)

\* C2: in independent mode (ind = True), whatever avg and bpscale, the
\* fused output is absent: what forward returns is (per_branch_logits, None)
\* and the gate and the combiner are never run.
C2_IndependentNoFusion ==
    Independent =>
        /\ x_c = Unbound
        /\ x_m = Unbound
        /\ pc \notin {"d_avg", "d_gate", "d_fuse", "d_return",
                      "m_avg", "m_gate", "m_fuse", "m_return"}
        /\ pc = "returned" =>
              /\ result = Pair(pro, None)
              /\ Len(pro) = K
              /\ \A n \in 0..(K - 1) : pro[n + 1] = BranchLogits(n)

C2_Witness ==
    /\ Independent
    /\ pc = "returned"
    /\ K >= 2
    /\ ~args.avg
    /\ GateAttrs \subseteq attrs

\* C3: every model's forward returns a pair (per-branch logits, fused or
\* none), and whenever the mode is not independent the call completes and
\* the second component is a fused tensor.
C3_Claim ==
    /\ pc = "returned" => result.tag = "pair"
    /\ (Done /\ ValidConfig /\ Fusing /\ ~args.ind) =>
          /\ pc = "returned"
          /\ result.fused.tag = "tensor"

\* C4: in gated mode, for every batch element b and class c, the fused
\* logits forward returns are the sum over the K branches of
\* weights[b, i] * per_branch_logits[b, c, i], the weights being the gate
\* output for the trunk output the heads read; the fused tensor is
\* [batch x num_classes].
C4_GatedWeightedSum ==
    (Gated /\ pc = "returned") =>
        /\ result.pro = pro
        /\ Len(pro) = K
        /\ x = Features(x_in)
        /\ x_c = Tensor(Gate(params.gate, x, K))
        /\ result.fused.tag = "tensor"
        /\ DOMAIN result.fused.val = Batch
        /\ \A b \in Batch :
              /\ DOMAIN result.fused.val[b] = Classes
              /\ \A c \in Classes :
                    result.fused.val[b][c] = WeightedSum(x_c.val, pro, b, c, K)

C4_Witness ==
    /\ Gated
    /\ pc = "returned"
    /\ K >= 2
    /\ \E b \in Batch : x_c.val[b][1] # x_c.val[b][2]
    /\ pro[1] # pro[2]

\* C5: in leave-one-out-average mode of DenseNet with K >= 2, for every
\* branch index i in 1..K-1 the fused entry at index i is 1/(K-1) times the
\* sum of per_branch_logits[:, :, j] over all j # i.
C5_LeaveOneOut ==
    (LeaveOneOutAvg /\ family = "DenseNet" /\ pc = "returned" /\ K >= 2) =>
        \A n \in 1..(K - 1) : \A b \in Batch : \A c \in Classes :
            IsMeanOf(result.fused.val[n + 1][b][c], SumOthers(result.pro, b, c, n))

C5_Witness ==
    /\ LeaveOneOutAvg
    /\ family = "DenseNet"
    /\ pc = "returned"
    /\ K >= 3
    /\ pro[1] # pro[2]
    /\ pro[2] # pro[3]
    /\ result.fused.val[2] # result.fused.val[3]

\* C6 as stated: in leave-one-out-average mode the fused output has a
\* branch axis of size K - 1, one entry per branch index 1..K-1, and none
\* for branch 0.
C6_Original ==
    (LeaveOneOutAvg /\ family = "DenseNet" /\ pc = "returned") =>
        /\ Len(result.fused.val) = K - 1
        /\ \A n \in 1..(K - 1) : \A b \in Batch : \A c \in Classes :
              IsMeanOf(result.fused.val[n][b][c], SumOthers(result.pro, b, c, n))

\* C6 amended: in leave-one-out-average mode of DenseNet the fused output
\* that forward returns has a branch axis of size K, and index 0 holds the
\* leave-branch-0-out average, the mean of branches 1..K-1.
C6_FusedAxis ==
    (LeaveOneOutAvg /\ family = "DenseNet" /\ pc = "returned") =>
        /\ K >= 2
        /\ result.fused.tag = "tensor"
        /\ Len(result.fused.val) = K
        /\ \A b \in Batch : \A c \in Classes :
              IsMeanOf(result.fused.val[1][b][c], SumOthers(result.pro, b, c, 0))

C6_Witness ==
    /\ LeaveOneOutAvg
    /\ family = "DenseNet"
    /\ pc = "returned"
    /\ K >= 3
    /\ result.fused.val[1] # result.fused.val[2]

\* C7: constructing a model in leave-one-out-average mode with K = 1 fails
\* at construction; no model is returned.
C7_Claim ==
    ~(Constructed /\ LeaveOneOutAvg /\ K = 1)

\* C8: constructing MutualNet with an unrecognized family name raises
\* NotImplementedError for every num_branches, with no student attached.
C8_Claim ==
    (family = "MutualNet" /\ args.model \notin Recognized) =>
        /\ pc = "ctor_raised"
        /\ ctor_error = "NotImplementedError"
        /\ attrs = {}

\* C9: constructing any model with num_branches <= 0 fails at construction.
C9_Claim ==
    (pc # "new" /\ K <= 0) => pc = "ctor_raised"

\* C10: the gate (control_v1, bn_v1) is constructed if and only if the
\* mode is gated (ind = False and avg = False).
C10_Claim ==
    (ValidConfig /\ Fusing) =>
        /\ (GateAttrs \subseteq attrs) <=> (~args.ind /\ ~args.avg)
        /\ (args.ind \/ args.avg) => (GateAttrs \cap attrs = {} /\ params.gate = <<>>)

\* C11: the tap ILR returns its input unchanged in the forward direction
\* and keeps the branch count K it was called with; in the backward
\* direction it returns the upstream gradient divided by that K for the
\* tensor input and no gradient for the branch-count argument.
C11_TapGradient ==
    (family = "DenseNet" /\ ilr_ctx # <<>>) =>
        /\ ilr_ctx = <<K>>
        /\ x = Features(x_in)
        /\ grad_out # <<>> =>
              /\ K >= 1
              /\ grad_in.grad_num_branches = None
              /\ DOMAIN grad_in.grad_input = Batch
              /\ \A b \in Batch :
                    /\ grad_in.grad_input[b][2] > 0
                    /\ grad_in.grad_input[b][1] * K = grad_in.grad_input[b][2] * grad_out[b]

C11_Witness ==
    /\ family = "DenseNet"
    /\ pc = "returned"
    /\ K >= 3
    /\ grad_out # <<>>
    /\ grad_out[1] = 1
    /\ grad_in.grad_input[1] = <<1, K>>

\* sum of the rationals of a sequence
RECURSIVE RSum(_)
RSum(w) == IF w = <<>> THEN RInt(0) ELSE RAdd(Head(w), RSum(Tail(w)))

\* C12: in gated mode, for every batch element and every K >= 1, the K
\* gate weights (pool, linear, batch-norm, relu, softmax over the branch
\* axis) are all non-negative and sum to 1.
C12_GateWeights ==
    (Fusing /\ x_c # Unbound) =>
        /\ Gated
        /\ K >= 1
        /\ DOMAIN x_c.val = Batch
        /\ \A b \in Batch :
              /\ Len(x_c.val[b]) = K
              /\ \A n \in 1..K : x_c.val[b][n][1] >= 0 /\ x_c.val[b][n][2] > 0
              /\ RSum(x_c.val[b]) = RInt(1)

C12_Witness ==
    /\ Gated
    /\ x_c # Unbound
    /\ K >= 2
    /\ \E n \in 1..K : params.gate[n] < 0
    /\ \E b \in Batch : x_c.val[b][1] # x_c.val[b][2]
    /\ x_c.val[1] # x_c.val[2]

\* C13: for DenseNet and MobileNetV2, with bpscale on every forward pass
\* sends the trunk output through the tap with the model's K, after the
\* trunk and before any head or the gate reads it; with bpscale off the
\* tap is never applied.
C13_Claim ==
    (Constructed /\ Fusing) =>
        /\ (args.bpscale /\ reads # <<>>) => (ilr_ctx = <<K>> /\ trunk_calls = 1)
        /\ ~args.bpscale => ilr_ctx = <<>>

\* C14: within one forward pass the trunk is evaluated exactly once, every
\* head evaluated and (in gated mode) the gate read that same trunk output,
\* and neither a head nor a fusion step changes the shared feature map or
\* the logits already stacked.
C14_SharedTrunk ==
    (Constructed /\ Fusing) =>
        /\ trunk_calls <= 1
        /\ (reads # <<>> \/ pc = "returned") => trunk_calls = 1
        /\ x # <<>> => x = Features(x_in)
        /\ \A k \in 1..Len(reads) : reads[k] = Features(x_in)
        /\ Len(order) = Len(pro)
        /\ \A k \in 1..Len(pro) :
              /\ order[k] = k - 1
              /\ pro[k] = HeadLogits(HeadParam(k - 1), Features(x_in))
        /\ Len(reads) = Len(pro) + (IF x_c = Unbound THEN 0 ELSE 1)
        /\ pc = "returned" =>
              /\ result.pro = pro
              /\ Len(pro) = K
              /\ Gated => x_c # Unbound

C14_Witness ==
    /\ Gated
    /\ family = "DenseNet"
    /\ pc = "returned"
    /\ K >= 3
    /\ Len(reads) = K + 1
    /\ trunk_calls = 1

\* what the ascending order 0..K-1 gives for these parameters and input
AscPro == [n \in 1..K |-> HeadLogits(HeadParam(n - 1), Features(x_in))]
AscWeights == Gate(params.gate, Features(x_in), K)
AscFused ==
    IF args.ind THEN None
    ELSE IF args.avg THEN DenseNetAvgFuse(AscPro, K).x_m
    ELSE IF family = "DenseNet" THEN Tensor(DenseNetGatedFuse(AscWeights, AscPro, K))
    ELSE Tensor(MobileNetV2GatedFuse(AscWeights, AscPro, K))
AscHeadAttrs(n) == IF family = "DenseNet" THEN DenseNetHeadAttrs(n)
                   ELSE MobileNetV2HeadAttrs(n)
AscError ==
    IF \E n \in 0..(IF K <= 0 THEN 0 ELSE K - 1) : ~(AscHeadAttrs(n) \subseteq attrs)
    THEN "AttributeError"
    ELSE IF args.ind \/ ~args.avg THEN "none"
    ELSE IF family = "DenseNet" THEN DenseNetAvgFuse(AscPro, K).error
    ELSE "UnboundLocalError"

====
